---- MODULE Spec2Model ----
(***************************************************************************)
(* Model of libcloud/dns/base.py: the Zone and Record value objects, the   *)
(* abstract DNSDriver contract, the two list materialisations and the      *)
(* string -> RecordType helper.                                            *)
(*                                                                         *)
(* Python values are records tagged by the field t, so that values of      *)
(* different Python types can be compared.  A Python str is a sequence of  *)
(* one-character strings.  The outcome of a call is either a returned      *)
(* value or a raised exception.                                            *)
(***************************************************************************)
EXTENDS Integers, Sequences, FiniteSets, TLC

VARIABLES op, args, fwd, drv, ret, zone, record

vars == <<op, args, fwd, drv, ret, zone, record>>

(***************************************************************************)
(* Bounds of the model.                                                    *)
(***************************************************************************)
MaxInt == 12
MaxTtl == 2
MaxYield == 2
MaxLen == 3

(***************************************************************************)
(* Python values.                                                          *)
(***************************************************************************)
PyNone == [t |-> "None"]
PyInt(k) == [t |-> "int", n |-> k]
PyStr(chars) == [t |-> "str", s |-> chars]
PyBool(v) == [t |-> "bool", b |-> v]
PyDict(pairs) == [t |-> "dict", items |-> pairs]
PyList(seq) == [t |-> "list", items |-> seq]
PyIter(evs) == [t |-> "iterator", events |-> evs]
\* An argument the caller did not pass.
Missing == [t |-> "missing"]

EmptyStr == PyStr(<<>>)
EmptyDict == PyDict({})
SomeDict == PyDict({<<"k", "v">>})

Return(v) == [kind |-> "return", value |-> v]
Raise(e, m) == [kind |-> "raise", err |-> e, msg |-> m]
NoOutcome == [kind |-> "none"]
NoCall == [op |-> "none"]

\* bool(v): the truth value Python's `if v`, `v or w` test.
Truthy(v) ==
    CASE v.t = "None" -> FALSE
      [] v.t = "int" -> v.n # 0
      [] v.t = "str" -> Len(v.s) > 0
      [] v.t = "bool" -> v.b
      [] v.t = "dict" -> v.items # {}
      [] v.t = "list" -> Len(v.items) > 0
      [] OTHER -> TRUE

\* v or w
py_or(v, w) == IF Truthy(v) THEN v ELSE w

DigitChar(d) ==
    CASE d = 0 -> "0" [] d = 1 -> "1" [] d = 2 -> "2" [] d = 3 -> "3"
      [] d = 4 -> "4" [] d = 5 -> "5" [] d = 6 -> "6" [] d = 7 -> "7"
      [] d = 8 -> "8" [] d = 9 -> "9"

RECURSIVE NatStr(_)
NatStr(k) == IF k < 10 THEN <<DigitChar(k)>>
             ELSE NatStr(k \div 10) \o <<DigitChar(k % 10)>>

\* str(v) for an int (its decimal form) and for a str (itself).
py_str(v) ==
    CASE v.t = "int" -> PyStr(IF v.n < 0 THEN <<"-">> \o NatStr(-v.n) ELSE NatStr(v.n))
      [] v.t = "str" -> v
      [] v.t = "None" -> PyStr(<<"N", "o", "n", "e">>)

(***************************************************************************)
(* Drivers: the bare DNSDriver, and a provider driver that overrides the   *)
(* ten abstract operations.                                                *)
(***************************************************************************)
BaseDriver == [t |-> "driver", cls |-> "DNSDriver"]
ProviderDriver == [t |-> "driver", cls |-> "ProviderDNSDriver"]
Drivers == {BaseDriver, ProviderDriver}

ExampleCom == PyStr(<<"e", "x", ".", "c", "o", "m">>)
ExampleOrg == PyStr(<<"e", "x", ".", "o", "r", "g">>)
Master == PyStr(<<"m", "a", "s", "t", "e", "r">>)
Slave == PyStr(<<"s", "l", "a", "v", "e">>)
Www == PyStr(<<"w", "w", "w">>)
Data1 == PyStr(<<"1", ".", "2", ".", "3", ".", "4">>)
Data2 == PyStr(<<"5", ".", "6", ".", "7", ".", "8">>)

(***************************************************************************)
(* Zone.__init__ and Record.__init__.                                      *)
(***************************************************************************)
Zone_init_RawId(id, domain, type, ttl, driver, extra) ==
    [t |-> "Zone", id |-> id, domain |-> domain, type |-> type,
     ttl |-> py_or(ttl, PyNone), driver |-> driver,
     extra |-> py_or(extra, EmptyDict)]

Zone_init_KeepTtl(id, domain, type, ttl, driver, extra) ==
    [t |-> "Zone", id |-> IF Truthy(id) THEN py_str(id) ELSE PyNone,
     domain |-> domain, type |-> type, ttl |-> ttl, driver |-> driver,
     extra |-> py_or(extra, EmptyDict)]

Zone_init(id, domain, type, ttl, driver, extra) ==
    [t |-> "Zone",
     id |-> IF Truthy(id) THEN py_str(id) ELSE PyNone,
     domain |-> domain,
     type |-> type,
     ttl |-> py_or(ttl, PyNone),
     driver |-> driver,
     extra |-> py_or(extra, EmptyDict)]

Record_init(id, name, type, data, zn, driver, extra) ==
    [t |-> "Record",
     id |-> IF Truthy(id) THEN py_str(id) ELSE PyNone,
     name |-> name,
     type |-> type,
     data |-> data,
     zone |-> zn,
     driver |-> driver,
     extra |-> py_or(extra, EmptyDict)]

\* The call Zone(...): binding of the arguments to the signature of
\* __init__ (extra alone has a default), then the body.
Zone_new(a) ==
    IF Missing \in {a.id, a.domain, a.type, a.ttl, a.driver}
    THEN Raise("TypeError", "__init__() missing required argument")
    ELSE Return(Zone_init(a.id, a.domain, a.type, a.ttl, a.driver,
                          IF a.extra = Missing THEN PyNone ELSE a.extra))

\* The call Record(...).
Record_new(a) ==
    IF Missing \in {a.id, a.name, a.type, a.data, a.zone, a.driver}
    THEN Raise("TypeError", "__init__() missing required argument")
    ELSE Return(Record_init(a.id, a.name, a.type, a.data, a.zone, a.driver,
                            IF a.extra = Missing THEN PyNone ELSE a.extra))

(***************************************************************************)
(* Inputs of the constructors.                                             *)
(***************************************************************************)
IdInputs == {PyInt(k) : k \in -MaxInt..MaxInt}
            \cup {EmptyStr, PyStr(<<"5">>), PyStr(<<"z", "1">>), PyNone}
TtlInputs == {PyInt(k) : k \in 0..MaxTtl} \cup {PyNone, Missing}
ExtraInputs == {Missing, PyNone, EmptyDict, SomeDict}

RecordTypeA == [t |-> "RecordType", name |-> <<"A">>]
RecordTypeMX == [t |-> "RecordType", name |-> <<"M", "X">>]

\* The zone and the record of the scenario the behaviours start from.
Zone0 == Zone_init(PyInt(5), ExampleCom, Master, PyInt(0), ProviderDriver, PyNone)
Record0 == Record_init(PyInt(1), Www, RecordTypeA, Data1, Zone0, ProviderDriver, PyNone)

Init ==
    /\ op = "init"
    /\ args = [none |-> TRUE]
    /\ fwd = NoCall
    /\ drv = NoOutcome
    /\ ret = NoOutcome
    /\ zone = Zone0
    /\ record = Record0

(***************************************************************************)
(* The constructors applied to every input.                                *)
(***************************************************************************)
ZoneArgs ==
    {[cls |-> "Zone", id |-> id, domain |-> ExampleCom, type |-> Master,
      ttl |-> ttl, driver |-> d, extra |-> extra] :
        id \in IdInputs, ttl \in TtlInputs, extra \in ExtraInputs, d \in Drivers}

RecordArgs ==
    {[cls |-> "Record", id |-> id, name |-> name, type |-> RecordTypeA,
      data |-> Data1, zone |-> Zone0, driver |-> Zone0.driver, extra |-> extra] :
        id \in IdInputs, name \in {EmptyStr, Www}, extra \in ExtraInputs}

InitCtor ==
    /\ op = "init"
    /\ args \in ZoneArgs \cup RecordArgs
    /\ fwd = NoCall
    /\ drv = NoOutcome
    /\ ret = NoOutcome
    /\ zone = Zone0
    /\ record = Record0

NewZone ==
    /\ op = "init"
    /\ args.cls = "Zone"
    /\ op' = "Zone"
    /\ ret' = Zone_new(args)
    /\ UNCHANGED <<args, fwd, drv, zone, record>>

NewRecord ==
    /\ op = "init"
    /\ args.cls = "Record"
    /\ op' = "Record"
    /\ ret' = Record_new(args)
    /\ UNCHANGED <<args, fwd, drv, zone, record>>

NextCtor == NewZone \/ NewRecord

SpecCtor == InitCtor /\ [][NextCtor]_vars

(***************************************************************************)
(* Decimal reading of a string, written independently of py_str.           *)
(***************************************************************************)
DigitValue(c) ==
    CASE c = "0" -> 0 [] c = "1" -> 1 [] c = "2" -> 2 [] c = "3" -> 3
      [] c = "4" -> 4 [] c = "5" -> 5 [] c = "6" -> 6 [] c = "7" -> 7
      [] c = "8" -> 8 [] c = "9" -> 9 [] OTHER -> -1

RECURSIVE DigitsValue(_)
DigitsValue(s) == IF Len(s) = 0 THEN 0
                  ELSE 10 * DigitsValue(SubSeq(s, 1, Len(s) - 1)) + DigitValue(s[Len(s)])

\* s is the canonical decimal numeral of the integer k.
IsDecimalOf(s, k) ==
    LET digits == IF k < 0 THEN Tail(s) ELSE s
    IN /\ Len(s) > 0
       /\ (k < 0) = (s[1] = "-")
       /\ Len(digits) > 0
       /\ \A i \in 1..Len(digits) : DigitValue(digits[i]) >= 0
       /\ (Len(digits) > 1 => digits[1] # "0")
       /\ DigitsValue(digits) = (IF k < 0 THEN -k ELSE k)

Constructed == op \in {"Zone", "Record"} /\ ret.kind = "return"

\* C2: every Zone and every Record constructed from an integer or string id
\* stores an id that is a string or None, never a number; a stored string is
\* the string form of the input: the decimal numeral of an integer input (5
\* gives "5"), the input itself for a string input.
C2_IdIsStringOrNone ==
    (Constructed /\ args.id.t \in {"int", "str"}) =>
        /\ ret.value.id.t \in {"str", "None"}
        /\ (ret.value.id.t = "str" /\ args.id.t = "int"
                => IsDecimalOf(ret.value.id.s, args.id.n))
        /\ (ret.value.id.t = "str" /\ args.id.t = "str"
                => ret.value.id = args.id)
        /\ (args.id = PyInt(5) => ret.value.id = PyStr(<<"5">>))

C2_Witness ==
    /\ Constructed
    /\ op = "Record"
    /\ args.id = PyInt(-12)
    /\ ret.value.id = PyStr(<<"-", "1", "2">>)

\* C3 as stated: a Zone constructed with ttl 0, None or omitted has ttl None,
\* and a positive integer ttl is kept.
C3_Original ==
    op = "Zone" =>
        /\ (args.ttl \in {PyInt(0), PyNone, Missing}
                => ret.kind = "return" /\ ret.value.ttl = PyNone)
        /\ (args.ttl.t = "int" /\ args.ttl.n > 0
                => ret.kind = "return" /\ ret.value.ttl = args.ttl)

\* C3 amended: a Zone constructed with ttl 0 or None has ttl None and a
\* positive integer ttl is kept; ttl has no default, so constructing a Zone
\* without it raises TypeError and yields no Zone.
C3_TtlNormalised ==
    op = "Zone" =>
        /\ (args.ttl \in {PyInt(0), PyNone}
                => ret.kind = "return" /\ ret.value.ttl = PyNone)
        /\ (args.ttl.t = "int" /\ args.ttl.n > 0
                => ret.kind = "return" /\ ret.value.ttl = args.ttl)
        /\ (args.ttl = Missing
                => ret.kind = "raise" /\ ret.err = "TypeError")

C3_Witness ==
    /\ op = "Zone"
    /\ args.id = PyInt(5)
    /\ args.ttl = PyInt(0)
    /\ ret.kind = "return"
    /\ ret.value.id = PyStr(<<"5">>)
    /\ ret.value.ttl = PyNone

(***************************************************************************)
(* DNSDriver: the ten operations a driver must override.                   *)
(***************************************************************************)
NotImplemented(name) ==
    Raise("NotImplementedError", name \o " not implemented for this driver")

DNSDriver_iterate_zones == NotImplemented("iterate_zones")

DNSDriver_iterate_records(zn) == NotImplemented("iterate_records")

DNSDriver_get_zone(zone_id) == NotImplemented("get_zone")

DNSDriver_get_record(zone_id, record_id) == NotImplemented("get_record")

DNSDriver_create_zone(domain, type, ttl, extra) == NotImplemented("create_zone")

DNSDriver_update_zone(zn, domain, type, ttl, extra) == NotImplemented("update_zone")

DNSDriver_create_record(name, zn, type, data, extra) == NotImplemented("create_record")

DNSDriver_update_record(rec, name, type, data, extra) == NotImplemented("update_record")

DNSDriver_delete_zone(zn) == NotImplemented("delete_zone")

DNSDriver_delete_record_ReturnsFalse(rec) == Return(PyBool(FALSE))

DNSDriver_delete_record(rec) == NotImplemented("delete_record")

AbstractOps == {"iterate_zones", "iterate_records", "get_zone", "get_record",
                "create_zone", "update_zone", "create_record", "update_record",
                "delete_zone", "delete_record"}

\* The base implementation of the operation the call c names.
DNSDriver_call(c) ==
    CASE c.op = "iterate_zones" -> DNSDriver_iterate_zones
      [] c.op = "iterate_records" -> DNSDriver_iterate_records(c.zone)
      [] c.op = "get_zone" -> DNSDriver_get_zone(c.zone_id)
      [] c.op = "get_record" -> DNSDriver_get_record(c.zone_id, c.record_id)
      [] c.op = "create_zone" -> DNSDriver_create_zone(c.domain, c.type, c.ttl, c.extra)
      [] c.op = "update_zone" ->
            DNSDriver_update_zone(c.zone, c.domain, c.type, c.ttl, c.extra)
      [] c.op = "create_record" ->
            DNSDriver_create_record(c.name, c.zone, c.type, c.data, c.extra)
      [] c.op = "update_record" ->
            DNSDriver_update_record(c.record, c.name, c.type, c.data, c.extra)
      [] c.op = "delete_zone" -> DNSDriver_delete_zone(c.zone)
      [] c.op = "delete_record" -> DNSDriver_delete_record(c.record)

(***************************************************************************)
(* list(iterable): the events of an iterator are its yields, in order, up  *)
(* to its exhaustion or to the exception it raises.                        *)
(***************************************************************************)
Yield(v) == [ev |-> "yield", value |-> v]
Fail(e) == [ev |-> "raise", err |-> e]

RECURSIVE py_list_from(_, _)
py_list_from(evs, acc) ==
    IF Len(evs) = 0 THEN Return(PyList(acc))
    ELSE IF Head(evs).ev = "raise" THEN Raise(Head(evs).err, "")
    ELSE py_list_from(Tail(evs), Append(acc, Head(evs).value))

RECURSIVE py_list_Reversed(_, _)
py_list_Reversed(evs, acc) ==
    IF Len(evs) = 0 THEN Return(PyList(acc))
    ELSE IF Head(evs).ev = "raise" THEN Raise(Head(evs).err, "")
    ELSE py_list_Reversed(Tail(evs), <<Head(evs).value>> \o acc)

RECURSIVE py_list_Partial(_, _)
py_list_Partial(evs, acc) ==
    IF Len(evs) = 0 \/ Head(evs).ev = "raise" THEN Return(PyList(acc))
    ELSE py_list_Partial(Tail(evs), Append(acc, Head(evs).value))

\* list(<call>), given the outcome of the call that makes the iterator: an
\* exception raised by the call itself propagates before list() runs.
py_list_Backwards(made) ==
    IF made.kind = "raise" THEN made ELSE py_list_Reversed(made.value.events, <<>>)

py_list_Swallow(made) ==
    IF made.kind = "raise" THEN made ELSE py_list_Partial(made.value.events, <<>>)

py_list(made) ==
    IF made.kind = "raise" THEN made ELSE py_list_from(made.value.events, <<>>)

\* DNSDriver.list_zones, given the outcome of self.iterate_zones().
DNSDriver_list_zones(made) == py_list(made)

\* DNSDriver.list_records, given the outcome of self.iterate_records(zone).
DNSDriver_list_records(made) == py_list(made)

(***************************************************************************)
(* Zone and Record methods.  Each gives the instance as the method leaves  *)
(* it (self) and the call it makes on the driver (call); the outcome of    *)
(* that call is the outcome of the method.  An optional argument the       *)
(* caller did not pass takes the default of the method's signature.        *)
(***************************************************************************)
Default(v, d) == IF v = Missing THEN d ELSE v

Zone_list_records(self) ==
    [self |-> self, call |-> [op |-> "list_records", zone |-> self]]

Zone_create_record_CoerceName(self, name, type, data, extra) ==
    [self |-> self,
     call |-> [op |-> "create_record", name |-> py_or(name, PyNone), zone |-> self,
               type |-> type, data |-> data, extra |-> Default(extra, PyNone)]]

Zone_create_record_CopyZone(self, name, type, data, extra) ==
    [self |-> self,
     call |-> [op |-> "create_record", name |-> name,
               zone |-> Zone_init(PyNone, self.domain, self.type, self.ttl,
                                  self.driver, self.extra),
               type |-> type, data |-> data, extra |-> Default(extra, PyNone)]]

Zone_create_record(self, name, type, data, extra) ==
    [self |-> self,
     call |-> [op |-> "create_record", name |-> name, zone |-> self,
               type |-> type, data |-> data, extra |-> Default(extra, PyNone)]]

Zone_update_TypeDefaultMaster(self, domain, type, ttl, extra) ==
    [self |-> self,
     call |-> [op |-> "update_zone", zone |-> self,
               domain |-> Default(domain, PyNone), type |-> Default(type, Master),
               ttl |-> Default(ttl, PyNone), extra |-> Default(extra, PyNone)]]

Zone_update_InPlace(self, domain, type, ttl, extra) ==
    [self |-> [self EXCEPT !.domain = py_or(Default(domain, PyNone), self.domain)],
     call |-> [op |-> "update_zone", zone |-> self,
               domain |-> Default(domain, PyNone), type |-> Default(type, PyNone),
               ttl |-> Default(ttl, PyNone), extra |-> Default(extra, PyNone)]]

Zone_update(self, domain, type, ttl, extra) ==
    [self |-> self,
     call |-> [op |-> "update_zone", zone |-> self,
               domain |-> Default(domain, PyNone), type |-> Default(type, PyNone),
               ttl |-> Default(ttl, PyNone), extra |-> Default(extra, PyNone)]]

Zone_delete(self) ==
    [self |-> self, call |-> [op |-> "delete_zone", zone |-> self]]

Record_update(self, name, type, data, extra) ==
    [self |-> self,
     call |-> [op |-> "update_record", record |-> self,
               name |-> Default(name, PyNone), type |-> Default(type, PyNone),
               data |-> Default(data, PyNone), extra |-> Default(extra, PyNone)]]

Record_delete(self) ==
    [self |-> self, call |-> [op |-> "delete_record", record |-> self]]

(***************************************************************************)
(* A provider driver: a DNSDriver subclass that overrides the ten          *)
(* operations as the contract describes them.  Each operation may also     *)
(* fail with a provider error.                                             *)
(***************************************************************************)
ProviderErrors == {"ZoneDoesNotExistError", "LibcloudError"}

ProviderFailures == {Raise(e, "") : e \in ProviderErrors}

\* The runs of an iterator over the values Y: at most MaxYield events, an
\* exception ending the run.
IteratorRuns(Y) ==
    LET E == {Yield(y) : y \in Y} \cup {Fail(e) : e \in ProviderErrors}
    IN UNION {{s \in [1..n -> E] : \A i \in 1..(n - 1) : s[i].ev = "yield"}
              : n \in 0..MaxYield}

\* A field of an update: None leaves the current value.
Retain(new, current) == IF new = PyNone THEN current ELSE new

Provider_iterate_zones(d) ==
    {Return(PyIter(s)) :
        s \in IteratorRuns({Zone_init(PyInt(k), ExampleCom, Master, PyNone, d, PyNone)
                            : k \in 1..2})}
    \cup ProviderFailures

Provider_iterate_records(d, zn) ==
    {Return(PyIter(s)) :
        s \in IteratorRuns({Record_init(PyInt(1), Www, RecordTypeA, Data1, zn, d, PyNone),
                            Record_init(PyInt(2), EmptyStr, RecordTypeMX, Data2, zn, d, PyNone)})}
    \cup ProviderFailures

Provider_get_zone(d, zone_id) ==
    {Return(Zone_init(zone_id, ExampleCom, Master, PyNone, d, PyNone))}
    \cup ProviderFailures

Provider_get_record(d, zone_id, record_id) ==
    {Return(Record_init(record_id, Www, RecordTypeA, Data1,
                        Zone_init(zone_id, ExampleCom, Master, PyNone, d, PyNone),
                        d, PyNone))}
    \cup ProviderFailures

Provider_create_zone(d, domain, type, ttl, extra) ==
    {Return(Zone_init(PyInt(k), domain, type, ttl, d, extra)) : k \in 1..2}
    \cup ProviderFailures

Provider_update_zone(d, zn, domain, type, ttl, extra) ==
    {Return(Zone_init(zn.id, Retain(domain, zn.domain), Retain(type, zn.type),
                      Retain(ttl, zn.ttl), d, Retain(extra, zn.extra)))}
    \cup ProviderFailures

Provider_create_record(d, name, zn, type, data, extra) ==
    {Return(Record_init(PyInt(k), name, type, data, zn, d, extra)) : k \in 1..2}
    \cup ProviderFailures

Provider_update_record(d, rec, name, type, data, extra) ==
    {Return(Record_init(rec.id, Retain(name, rec.name), Retain(type, rec.type),
                        Retain(data, rec.data), rec.zone, d, Retain(extra, rec.extra)))}
    \cup ProviderFailures

Provider_delete_zone(d, zn) ==
    {Return(PyBool(b)) : b \in BOOLEAN} \cup ProviderFailures

Provider_delete_record(d, rec) ==
    {Return(PyBool(b)) : b \in BOOLEAN} \cup ProviderFailures

Provider_call(d, c) ==
    CASE c.op = "iterate_zones" -> Provider_iterate_zones(d)
      [] c.op = "iterate_records" -> Provider_iterate_records(d, c.zone)
      [] c.op = "get_zone" -> Provider_get_zone(d, c.zone_id)
      [] c.op = "get_record" -> Provider_get_record(d, c.zone_id, c.record_id)
      [] c.op = "create_zone" -> Provider_create_zone(d, c.domain, c.type, c.ttl, c.extra)
      [] c.op = "update_zone" ->
            Provider_update_zone(d, c.zone, c.domain, c.type, c.ttl, c.extra)
      [] c.op = "create_record" ->
            Provider_create_record(d, c.name, c.zone, c.type, c.data, c.extra)
      [] c.op = "update_record" ->
            Provider_update_record(d, c.record, c.name, c.type, c.data, c.extra)
      [] c.op = "delete_zone" -> Provider_delete_zone(d, c.zone)
      [] c.op = "delete_record" -> Provider_delete_record(d, c.record)

\* Method resolution: the outcomes of operation c on driver d.
DriverOutcomes(d, c) ==
    IF d.cls = "DNSDriver" THEN {DNSDriver_call(c)} ELSE Provider_call(d, c)

(***************************************************************************)
(* The operations of the layer, called on the zone and the record at hand  *)
(* and on the drivers.                                                     *)
(***************************************************************************)
\* A zone obtained from a driver, and a record of it.
SetUp ==
    \E id \in {PyInt(5), PyInt(0)}, type \in {Master, Slave},
       ttl \in {0, MaxTtl}, d \in Drivers, name \in {Www} :
        LET z == Zone_init(id, ExampleCom, type, PyInt(ttl), d, PyNone)
        IN /\ op' = "setup"
           /\ args' = [none |-> TRUE]
           /\ zone' = z
           /\ record' = Record_init(PyInt(1), name, RecordTypeA, Data1, z, d, PyNone)
           /\ fwd' = NoCall
           /\ drv' = NoOutcome
           /\ ret' = NoOutcome

ZoneListRecords ==
    LET m == Zone_list_records(zone)
    IN \E made \in DriverOutcomes(zone.driver,
                                  [op |-> "iterate_records", zone |-> m.call.zone]) :
        /\ op' = "Zone.list_records"
        /\ args' = [none |-> TRUE]
        /\ zone' = m.self
        /\ fwd' = m.call
        /\ drv' = made
        /\ ret' = DNSDriver_list_records(made)
        /\ UNCHANGED record

ZoneCreateRecord ==
    \E name \in {EmptyStr, Www}, type \in {RecordTypeA, RecordTypeMX},
       extra \in {Missing, PyNone, SomeDict} :
        LET m == Zone_create_record(zone, name, type, Data2, extra)
        IN \E out \in DriverOutcomes(zone.driver, m.call) :
            /\ op' = "Zone.create_record"
            /\ args' = [name |-> name, type |-> type, data |-> Data2, extra |-> extra]
            /\ zone' = m.self
            /\ fwd' = m.call
            /\ drv' = out
            /\ ret' = out
            /\ UNCHANGED record

ZoneUpdate ==
    \E domain \in {Missing, ExampleOrg}, type \in {Missing, Master, Slave},
       ttl \in {Missing, PyInt(0), PyInt(MaxTtl + 1)},
       extra \in {Missing, SomeDict} :
        LET m == Zone_update(zone, domain, type, ttl, extra)
        IN \E out \in DriverOutcomes(zone.driver, m.call) :
            /\ op' = "Zone.update"
            /\ args' = [domain |-> domain, type |-> type, ttl |-> ttl, extra |-> extra]
            /\ zone' = m.self
            /\ fwd' = m.call
            /\ drv' = out
            /\ ret' = out
            /\ UNCHANGED record

ZoneDelete ==
    LET m == Zone_delete(zone)
    IN \E out \in DriverOutcomes(zone.driver, m.call) :
        /\ op' = "Zone.delete"
        /\ args' = [none |-> TRUE]
        /\ zone' = m.self
        /\ fwd' = m.call
        /\ drv' = out
        /\ ret' = out
        /\ UNCHANGED record

RecordUpdate ==
    \E name \in {Missing, EmptyStr}, type \in {Missing, RecordTypeMX},
       data \in {Missing, Data2}, extra \in {Missing, SomeDict} :
        LET m == Record_update(record, name, type, data, extra)
        IN \E out \in DriverOutcomes(record.driver, m.call) :
            /\ op' = "Record.update"
            /\ args' = [name |-> name, type |-> type, data |-> data, extra |-> extra]
            /\ record' = m.self
            /\ fwd' = m.call
            /\ drv' = out
            /\ ret' = out
            /\ UNCHANGED zone

RecordDelete ==
    LET m == Record_delete(record)
    IN \E out \in DriverOutcomes(record.driver, m.call) :
        /\ op' = "Record.delete"
        /\ args' = [none |-> TRUE]
        /\ record' = m.self
        /\ fwd' = m.call
        /\ drv' = out
        /\ ret' = out
        /\ UNCHANGED zone

DriverListZones ==
    \E d \in Drivers :
        \E made \in DriverOutcomes(d, [op |-> "iterate_zones"]) :
            /\ op' = "DNSDriver.list_zones"
            /\ args' = [driver |-> d]
            /\ fwd' = NoCall
            /\ drv' = made
            /\ ret' = DNSDriver_list_zones(made)
            /\ UNCHANGED <<zone, record>>

DriverListRecords ==
    \E d \in Drivers :
        \E made \in DriverOutcomes(d, [op |-> "iterate_records", zone |-> zone]) :
            /\ op' = "DNSDriver.list_records"
            /\ args' = [driver |-> d, zone |-> zone]
            /\ fwd' = NoCall
            /\ drv' = made
            /\ ret' = DNSDriver_list_records(made)
            /\ UNCHANGED <<zone, record>>

\* The calls of the ten operations a caller makes on a driver directly.
DirectCalls ==
    {[op |-> "iterate_zones"],
     [op |-> "iterate_records", zone |-> zone],
     [op |-> "delete_zone", zone |-> zone],
     [op |-> "delete_record", record |-> record]}
    \cup {[op |-> "get_zone", zone_id |-> i] : i \in {PyStr(<<"5">>), EmptyStr}}
    \cup {[op |-> "get_record", zone_id |-> i, record_id |-> j] :
            i \in {PyStr(<<"5">>)}, j \in {PyStr(<<"1">>), EmptyStr}}
    \cup {[op |-> "create_zone", domain |-> ExampleOrg, type |-> ty, ttl |-> tt,
           extra |-> PyNone] : ty \in {Master}, tt \in {PyNone, PyInt(1)}}
    \cup {[op |-> "update_zone", zone |-> zone, domain |-> ExampleOrg, type |-> ty,
           ttl |-> tt, extra |-> PyNone] : ty \in {Master, Slave}, tt \in {PyNone}}
    \cup {[op |-> "create_record", name |-> nm, zone |-> zone, type |-> RecordTypeA,
           data |-> Data1, extra |-> ex] : nm \in {EmptyStr, Www}, ex \in {PyNone}}
    \cup {[op |-> "update_record", record |-> record, name |-> nm, type |-> RecordTypeMX,
           data |-> Data2, extra |-> ex] : nm \in {EmptyStr}, ex \in {PyNone, SomeDict}}

DriverCall ==
    \E d \in Drivers, c \in DirectCalls :
        \E out \in DriverOutcomes(d, c) :
            /\ op' = "driver"
            /\ args' = [driver |-> d, call |-> c]
            /\ fwd' = NoCall
            /\ drv' = out
            /\ ret' = out
            /\ UNCHANGED <<zone, record>>

Next ==
    \/ SetUp
    \/ ZoneListRecords
    \/ ZoneCreateRecord
    \/ ZoneUpdate
    \/ ZoneDelete
    \/ RecordUpdate
    \/ RecordDelete
    \/ DriverListZones
    \/ DriverListRecords
    \/ DriverCall

Spec == Init /\ [][Next]_vars

(***************************************************************************)
(* Properties of the driver operations.                                    *)
(***************************************************************************)
\* C1: each of the ten operations, called on a DNSDriver that does not
\* override it, ends in NotImplementedError naming the operation, whatever
\* its arguments, and returns no value.
C1_BaseRaisesNotImplemented ==
    (op = "driver" /\ args.driver = BaseDriver /\ args.call.op \in AbstractOps) =>
        /\ ret.kind = "raise"
        /\ ret.err = "NotImplementedError"
        /\ ret.msg = args.call.op \o " not implemented for this driver"

C1_Witness ==
    /\ op = "driver"
    /\ args.driver = BaseDriver
    /\ args.call.op = "delete_record"
    /\ ret.kind = "raise"

\* The values an iterator run yields, in order, when no event is a failure.
AllYield(evs) == \A i \in 1..Len(evs) : evs[i].ev = "yield"

\* C4: Zone.list_records() returns a list of exactly the records the
\* driver's iterate_records(zone) yields: the same length, the same record
\* at every position, for every finite run of the iterator, the empty one
\* included.
C4_ListIsIteratorOrder ==
    (op = "Zone.list_records" /\ drv.kind = "return" /\ AllYield(drv.value.events)) =>
        /\ ret.kind = "return"
        /\ ret.value.t = "list"
        /\ Len(ret.value.items) = Len(drv.value.events)
        /\ \A i \in 1..Len(drv.value.events) :
                ret.value.items[i] = drv.value.events[i].value

C4_Witness ==
    /\ op = "Zone.list_records"
    /\ drv.kind = "return"
    /\ Len(drv.value.events) = 2
    /\ AllYield(drv.value.events)
    /\ drv.value.events[1] # drv.value.events[2]
    /\ ret.kind = "return"
    /\ Len(ret.value.items) = 2

\* The argument was left unset: not passed, or passed as None.
Unset(a) == a \in {Missing, PyNone}

\* C5: Zone.update and Record.update, called with some fields left unset,
\* return a value whose unset fields are those of the zone or record being
\* updated, and whose given fields are the values given.
C5_UnsetFieldsRetained ==
    /\ (op = "Zone.update" /\ ret.kind = "return") =>
        /\ ret.value.t = "Zone"
        /\ ret.value.id = zone.id
        /\ ret.value.domain = (IF Unset(args.domain) THEN zone.domain ELSE args.domain)
        /\ ret.value.type = (IF Unset(args.type) THEN zone.type ELSE args.type)
        /\ (Unset(args.ttl) => ret.value.ttl = zone.ttl)
        /\ (~Unset(args.ttl) /\ args.ttl.n > 0 => ret.value.ttl = args.ttl)
        /\ ret.value.extra = (IF Unset(args.extra) THEN zone.extra ELSE args.extra)
    /\ (op = "Record.update" /\ ret.kind = "return") =>
        /\ ret.value.t = "Record"
        /\ ret.value.id = record.id
        /\ ret.value.zone = record.zone
        /\ ret.value.name = (IF Unset(args.name) THEN record.name ELSE args.name)
        /\ ret.value.type = (IF Unset(args.type) THEN record.type ELSE args.type)
        /\ ret.value.data = (IF Unset(args.data) THEN record.data ELSE args.data)
        /\ ret.value.extra = (IF Unset(args.extra) THEN record.extra ELSE args.extra)

C5_Witness ==
    /\ op = "Zone.update"
    /\ ret.kind = "return"
    /\ zone.type = Slave
    /\ zone.ttl # PyNone
    /\ args.domain = ExampleOrg
    /\ args.type = Missing
    /\ args.ttl = Missing
    /\ ret.value.domain = ExampleOrg
    /\ ret.value.type = Slave
    /\ ret.value.ttl = zone.ttl

InstanceMethods == {"Zone.list_records", "Zone.create_record", "Zone.update",
                    "Zone.delete", "Record.update", "Record.delete"}

\* C6: no call of list_records, create_record, update or delete on a Zone,
\* and no call of update or delete on a Record, changes any attribute of the
\* instance: an update returns a fresh value, a delete a success flag.
C6_InstancesNotMutated ==
    [][op' \in InstanceMethods => (zone' = zone /\ record' = record)]_vars

C6_Witness ==
    /\ op = "Zone.update"
    /\ ret.kind = "return"
    /\ args.domain = ExampleOrg
    /\ ret.value.domain = ExampleOrg
    /\ zone.domain = ExampleCom

\* C7: Zone.create_record forwards to the driver's create_record the name as
\* given (the empty string of an apex record stays the empty string, it is
\* neither None nor the domain), the calling zone itself as zone, and type,
\* data and extra as given; the layer raises nothing of its own.
C7_CreateRecordForwarded ==
    op = "Zone.create_record" =>
        /\ fwd.op = "create_record"
        /\ fwd.name = args.name
        /\ (args.name = EmptyStr => fwd.name.t = "str" /\ Len(fwd.name.s) = 0)
        /\ fwd.zone = zone
        /\ fwd.type = args.type
        /\ fwd.data = args.data
        /\ (args.extra # Missing => fwd.extra = args.extra)
        /\ ret = drv

C7_Witness ==
    /\ op = "Zone.create_record"
    /\ args.name = EmptyStr
    /\ fwd.name = EmptyStr
    /\ ret.kind = "return"
    /\ ret.value.name = EmptyStr

\* The first failure of an iterator run, if it has one.
HasFailure(evs) == \E i \in 1..Len(evs) : evs[i].ev = "raise"
FirstFailure(evs) == evs[CHOOSE i \in 1..Len(evs) :
                            evs[i].ev = "raise" /\ \A j \in 1..(i - 1) : evs[j].ev = "yield"]

LayerOps == InstanceMethods \cup {"DNSDriver.list_zones", "DNSDriver.list_records"}

\* C8: a failure of the driver operation behind Zone.list_records,
\* create_record, update, delete, Record.update, delete, DNSDriver.list_zones
\* or list_records reaches the caller as that same error; when the iterator
\* fails after yielding some items, the listing fails with the iterator's
\* error and returns no list.
C8_FailuresPropagate ==
    op \in LayerOps =>
        /\ (drv.kind = "raise" => ret = drv)
        /\ (drv.kind = "return" /\ drv.value.t = "iterator"
                /\ HasFailure(drv.value.events)
            => /\ ret.kind = "raise"
               /\ ret.err = FirstFailure(drv.value.events).err)

C8_Witness ==
    /\ op = "Zone.list_records"
    /\ drv.kind = "return"
    /\ Len(drv.value.events) = 2
    /\ drv.value.events[1].ev = "yield"
    /\ drv.value.events[2] = Fail("LibcloudError")
    /\ ret.kind = "raise"
    /\ ret.err = "LibcloudError"

\* C9: a Record obtained for a zone through Zone.create_record or
\* Zone.list_records has that zone as its zone: its zone.id is the id of the
\* zone it was created or listed under.
C9_RecordZoneMatches ==
    /\ (op = "Zone.create_record" /\ ret.kind = "return") =>
            ret.value.zone.id = zone.id
    /\ (op = "Zone.list_records" /\ ret.kind = "return") =>
            \A i \in 1..Len(ret.value.items) : ret.value.items[i].zone.id = zone.id

C9_Witness ==
    /\ op = "Zone.create_record"
    /\ ret.kind = "return"
    /\ zone.id = PyStr(<<"5">>)
    /\ ret.value.zone.id = PyStr(<<"5">>)

(***************************************************************************)
(* DNSDriver._string_to_record_type.                                       *)
(***************************************************************************)
\* The members of the RecordType enumeration, by name.
RecordTypeNames ==
    {<<"A">>, <<"A", "A", "A", "A">>, <<"M", "X">>, <<"N", "S">>,
     <<"T", "X", "T">>, <<"C", "N", "A", "M", "E">>}

\* getattr(RecordType, name)
getattr_RecordType(name) ==
    IF name.s \in RecordTypeNames
    THEN Return([t |-> "RecordType", name |-> name.s])
    ELSE Raise("AttributeError", "type object 'RecordType' has no attribute")

UpperChar(c) ==
    CASE c = "a" -> "A" [] c = "m" -> "M" [] c = "x" -> "X" [] c = "n" -> "N"
      [] c = "s" -> "S" [] c = "t" -> "T" [] c = "c" -> "C" [] c = "e" -> "E"
      [] OTHER -> c

\* string.upper()
py_upper(v) == PyStr([i \in 1..Len(v.s) |-> UpperChar(v.s[i])])

_string_to_record_type_AsGiven(string) == getattr_RecordType(string)

_string_to_record_type(string) == getattr_RecordType(py_upper(string))

Alphabet == {"a", "A", "m", "M", "x", "X", "_"}

StringsOfLen(n) == [1..n -> Alphabet]

Strings == UNION {StringsOfLen(n) : n \in 0..MaxLen}

InitType ==
    /\ op = "init"
    /\ args \in {[string |-> PyStr(s)] : s \in Strings}
    /\ fwd = NoCall
    /\ drv = NoOutcome
    /\ ret = NoOutcome
    /\ zone = Zone0
    /\ record = Record0

StringToRecordType ==
    /\ op = "init"
    /\ op' = "_string_to_record_type"
    /\ ret' = _string_to_record_type(args.string)
    /\ UNCHANGED <<args, fwd, drv, zone, record>>

NextType == StringToRecordType

SpecType == InitType /\ [][NextType]_vars

\* The letters that differ in case only.
CasePairs == {<<"a", "A">>, <<"m", "M">>, <<"x", "X">>}

SameLetter(c, d) == c = d \/ <<c, d>> \in CasePairs \/ <<d, c>> \in CasePairs

\* u is s up to the case of its letters.
Spelling(s, u) ==
    /\ Len(s) = Len(u)
    /\ \A i \in 1..Len(s) : SameLetter(s[i], u[i])

\* C10: _string_to_record_type gives the same outcome for every spelling of
\* its input that differs in case only; when a member of RecordType is such
\* a spelling the outcome is that member, and otherwise it is a lookup error
\* (AttributeError) and no value.
C10_CaseInsensitiveLookup ==
    op = "_string_to_record_type" =>
        LET s == args.string.s
        IN /\ \A u \in StringsOfLen(Len(s)) :
                Spelling(s, u) => _string_to_record_type(PyStr(u)) = ret
           /\ IF \E m \in RecordTypeNames : Spelling(s, m)
              THEN /\ ret.kind = "return"
                   /\ ret.value.t = "RecordType"
                   /\ ret.value.name \in RecordTypeNames
                   /\ Spelling(s, ret.value.name)
              ELSE /\ ret.kind = "raise"
                   /\ ret.err = "AttributeError"

C10_Witness ==
    /\ op = "_string_to_record_type"
    /\ args.string = PyStr(<<"m", "X">>)
    /\ ret = Return(RecordTypeMX)

====
